---- MODULE Spec2Model ----
(***************************************************************************)
(* A model of the nail JSON library: the tokenizer (src/src/tokenizer.rs), *)
(* the recursive-descent parser (src/src/parser.rs) and the entry point    *)
(* parse_json (src/src/lib.rs).                                            *)
(*                                                                         *)
(* A character is a one-character string, a &str is a sequence of          *)
(* characters.  The Peekable<Chars> cursor of the tokenizer is the number  *)
(* of characters already consumed; the Peekable<Iter<Token>> cursor of the *)
(* parser is the number of tokens already consumed.                        *)
(***************************************************************************)
EXTENDS Integers, Sequences, FiniteSets, TLC

VARIABLES
    input_string,   \* Tokenizer.input_string
    chars,          \* tokenize_json: characters consumed from the iterator
    tokens,         \* tokenize_json's Vec<Token>, then Parser.tokens
    pc,             \* "tokenize_json", "parse_tokens" or "return"
    result,         \* what parse_json / parse_tokens returned
    token_iter      \* parse_tokens: tokens consumed from the iterator

vars == <<input_string, chars, tokens, pc, result, token_iter>>

(***************************************************************************)
(* Characters                                                              *)
(***************************************************************************)
QUOTE == "\""
BACKSLASH == "\\"
NEWLINE == "\n"
CARRIAGE_RETURN == "\r"
TAB == "\t"
FORM_FEED == "\f"
BACKSPACE == "\\u{8}"

Digits == <<"0", "1", "2", "3", "4", "5", "6", "7", "8", "9">>

IsDigit(c) == \E i \in 1..10 : Digits[i] = c

DigitValue(c) == (CHOOSE i \in 1..10 : Digits[i] = c) - 1

HexLower == <<"0", "1", "2", "3", "4", "5", "6", "7", "8", "9",
              "a", "b", "c", "d", "e", "f">>

HexUpper == <<"0", "1", "2", "3", "4", "5", "6", "7", "8", "9",
              "A", "B", "C", "D", "E", "F">>

is_ascii_hexdigit(c) == \E i \in 1..16 : HexLower[i] = c \/ HexUpper[i] = c

HexValue(c) == (CHOOSE i \in 1..16 : HexLower[i] = c \/ HexUpper[i] = c) - 1

\* u32::from_str_radix(&unicode_digits, 16) on four hex digits
from_str_radix(d) ==
    ((HexValue(d[1]) * 16 + HexValue(d[2])) * 16 + HexValue(d[3])) * 16
        + HexValue(d[4])

SURROGATE_FIRST == 55296
SURROGATE_LAST == 57343

\* The printable ASCII characters the inputs of the model can name, by
\* code point; any other scalar value is written \u{n}.
AsciiTable ==
    [n \in {8, 9, 10, 12, 13, 34, 47, 48, 49, 92, 97} |->
        CASE n = 8 -> BACKSPACE
          [] n = 9 -> TAB
          [] n = 10 -> NEWLINE
          [] n = 12 -> FORM_FEED
          [] n = 13 -> CARRIAGE_RETURN
          [] n = 34 -> QUOTE
          [] n = 47 -> "/"
          [] n = 48 -> "0"
          [] n = 49 -> "1"
          [] n = 92 -> BACKSLASH
          [] n = 97 -> "a"]

\* A slip: every code point taken for a character, surrogates included.
char_from_u32_unchecked(code_point) ==
    [some |-> TRUE,
     char |-> IF code_point \in DOMAIN AsciiTable
              THEN AsciiTable[code_point]
              ELSE "\\u{" \o ToString(code_point) \o "}"]

\* char::from_u32: None for a surrogate, the character otherwise
char_from_u32(code_point) ==
    IF code_point >= SURROGATE_FIRST /\ code_point <= SURROGATE_LAST
    THEN [some |-> FALSE]
    ELSE [some |-> TRUE,
          char |-> IF code_point \in DOMAIN AsciiTable
                   THEN AsciiTable[code_point]
                   ELSE "\\u{" \o ToString(code_point) \o "}"]

(***************************************************************************)
(* Result values of the scanners: Ok(value) with the cursor after the      *)
(* call, or Err(message).                                                  *)
(***************************************************************************)
Ok(v, p) == [ok |-> TRUE, val |-> v, pos |-> p]

Err(e) == [ok |-> FALSE, err |-> e]

\* What one turn of a loop ends in: the next turn, with the cursor and the
\* loop's variables as the turn leaves them, or the return of the function.
Continue(p, locals) == [continue |-> TRUE, pos |-> p, locals |-> locals]

Return(r) == [continue |-> FALSE, res |-> r]

\* The element of a set of one element: a loop takes its turn once, and
\* goes on from what the turn left.
TheOne(S) == CHOOSE x \in S : TRUE

(***************************************************************************)
(* types.rs: Number                                                        *)
(***************************************************************************)
I32_MAX == 2147483647

I32_MIN == -I32_MAX - 1

NumberInt(v) == [kind |-> "Int", v |-> v]

\* An f64 is kept as the decimal it was read from, normalised: sign, the
\* integer digits without leading zeros, the fraction digits without
\* trailing zeros.
NumberFloat(neg, int_digits, frac_digits) ==
    [kind |-> "Float", neg |-> neg, int |-> int_digits, frac |-> frac_digits]

(***************************************************************************)
(* tokenizer.rs: Token                                                     *)
(***************************************************************************)
LeftBrace == [type |-> "LeftBrace"]
RightBrace == [type |-> "RightBrace"]
LeftBracket == [type |-> "LeftBracket"]
RightBracket == [type |-> "RightBracket"]
Colon == [type |-> "Colon"]
Comma == [type |-> "Comma"]
TokenString(s) == [type |-> "String", s |-> s]
TokenNumber(n) == [type |-> "Number", n |-> n]
TokenBoolean(b) == [type |-> "Boolean", b |-> b]
TokenNull == [type |-> "Null"]

(***************************************************************************)
(* tokenizer.rs: the keyword scanner                                       *)
(***************************************************************************)
\* chars.take(length).eq(word.chars()): the characters are pulled from the
\* cursor one at a time and compared with the word's; the comparison stops
\* at the first difference, or when either side ends.  i is the number of
\* characters of the word matched so far.
take_eq_turn(s, p, word, i) ==
    IF i = Len(word) THEN Return([matched |-> TRUE, pos |-> p])
    ELSE IF p >= Len(s) THEN Return([matched |-> FALSE, pos |-> p])
    ELSE IF s[p + 1] # word[i + 1] THEN Return([matched |-> FALSE, pos |-> p + 1])
    ELSE Continue(p + 1, i + 1)

RECURSIVE take_eq(_, _, _, _)
take_eq(s, p, word, i) ==
    TheOne({IF turn.continue THEN take_eq(s, turn.pos, word, turn.locals)
            ELSE turn.res :
            turn \in {take_eq_turn(s, p, word, i)}})

\* A slip: chars.zip(word.chars()).all(..), which is content with an input
\* that ends inside the word.
RECURSIVE zip_all(_, _, _, _)
zip_all(s, p, word, i) ==
    IF i = Len(word) \/ p >= Len(s) THEN [matched |-> TRUE, pos |-> p]
    ELSE IF s[p + 1] # word[i + 1] THEN [matched |-> FALSE, pos |-> p + 1]
    ELSE zip_all(s, p + 1, word, i + 1)

match_exact_word_zip(s, p, word) == zip_all(s, p, word, 0)

match_exact_word(s, p, word) == take_eq(s, p, word, 0)

try_tokenize_null(s, p) == match_exact_word(s, p, <<"n", "u", "l", "l">>)

try_tokenize_true(s, p) == match_exact_word(s, p, <<"t", "r", "u", "e">>)

try_tokenize_false(s, p) == match_exact_word(s, p, <<"f", "a", "l", "s", "e">>)

(***************************************************************************)
(* tokenizer.rs: the string scanner                                        *)
(***************************************************************************)
\* A slip: the character after the backslash pushed as it is.
SimpleEscapeRaw(c) == c

\* The one-character escapes and what each pushes.
SimpleEscape(c) ==
    CASE c = QUOTE -> QUOTE
      [] c = BACKSLASH -> BACKSLASH
      [] c = "/" -> "/"
      [] c = "b" -> BACKSPACE
      [] c = "f" -> FORM_FEED
      [] c = "n" -> NEWLINE
      [] c = "r" -> CARRIAGE_RETURN
      [] c = "t" -> TAB

IsSimpleEscape(c) == c \in {QUOTE, BACKSLASH, "/", "b", "f", "n", "r", "t"}

\* for _ in 0..4 { chars.next() }: the four characters after \u, or an
\* error at the first that is missing or no hex digit; then the code point.
unicode_escape(s, p) ==
    IF \E k \in 1..4 : p + k > Len(s) \/ ~is_ascii_hexdigit(s[p + k])
    THEN Err("Invalid unicode escape sequence")
    ELSE LET unicode_digits == SubSeq(s, p + 1, p + 4)
             unicode_char == char_from_u32(from_str_radix(unicode_digits))
         IN  IF unicode_char.some
             THEN Ok(unicode_char.char, p + 4)
             ELSE Err("Invalid unicode code point")

\* One turn of while let Some(next_char) = chars.next() { ... }
string_turn(s, p, extracted_string) ==
    IF p >= Len(s) THEN Return(Err("EOF reached when parsing string"))
    ELSE LET next_char == s[p + 1] IN
         IF next_char = QUOTE THEN Return(Ok(extracted_string, p + 1))
         ELSE IF next_char = BACKSLASH THEN
              IF p + 1 >= Len(s)
              THEN Return(Err("EOF reached when parsing escape sequence"))
              ELSE LET e == s[p + 2] IN
                   IF IsSimpleEscape(e)
                   THEN Continue(p + 2,
                                 Append(extracted_string, SimpleEscape(e)))
                   ELSE IF e = "u"
                   THEN LET u == unicode_escape(s, p + 2) IN
                        IF u.ok
                        THEN Continue(u.pos, Append(extracted_string, u.val))
                        ELSE Return(u)
                   ELSE Return(Err("Invalid escape sequence"))
         ELSE Continue(p + 1, Append(extracted_string, next_char))

RECURSIVE string_loop(_, _, _)
string_loop(s, p, extracted_string) ==
    TheOne({IF turn.continue THEN string_loop(s, turn.pos, turn.locals)
            ELSE turn.res :
            turn \in {string_turn(s, p, extracted_string)}})

\* chars.next() skips the opening double quote
try_tokenize_string(s, p) == string_loop(s, p + 1, <<>>)

(***************************************************************************)
(* tokenizer.rs: the number scanner                                        *)
(***************************************************************************)
\* i32::checked_mul, checked_add and checked_sub for a multiplier b > 0 and
\* a digit d >= 0, computed without leaving the 32-bit range.
checked_mul(a, b) ==
    LET hi == I32_MAX \div b
        lo == -(hi + (IF I32_MAX % b = b - 1 THEN 1 ELSE 0))
    IN  IF a > hi \/ a < lo THEN [some |-> FALSE] ELSE [some |-> TRUE, v |-> a * b]

checked_add(a, d) ==
    IF a > I32_MAX - d THEN [some |-> FALSE] ELSE [some |-> TRUE, v |-> a + d]

checked_sub(a, d) ==
    IF a < I32_MIN + d THEN [some |-> FALSE] ELSE [some |-> TRUE, v |-> a - d]

\* The digit loop of i32::from_str: result = result * 10 (checked), then
\* + digit for a positive literal, - digit for a negative one (checked).
RECURSIVE i32_digits(_, _, _, _)
i32_digits(digits, i, is_positive, res) ==
    IF i > Len(digits) THEN [some |-> TRUE, v |-> res]
    ELSE LET m == checked_mul(res, 10) IN
         IF ~m.some THEN [some |-> FALSE]
         ELSE IF ~IsDigit(digits[i]) THEN [some |-> FALSE]
         ELSE LET x == DigitValue(digits[i])
                  r == IF is_positive THEN checked_add(m.v, x)
                                      ELSE checked_sub(m.v, x)
              IN  IF ~r.some THEN [some |-> FALSE]
                  ELSE TheOne({i32_digits(digits, i + 1, is_positive, v) :
                               v \in {r.v}})

\* A slip: the magnitude read as a positive i32 and negated afterwards.
parse_i32_magnitude(s) ==
    IF s = <<>> THEN [some |-> FALSE]
    ELSE IF s[1] \in {"-", "+"} /\ Len(s) = 1 THEN [some |-> FALSE]
    ELSE IF s[1] = "-"
    THEN LET m == i32_digits(Tail(s), 1, TRUE, 0) IN
         IF m.some THEN [some |-> TRUE, v |-> -m.v] ELSE m
    ELSE IF s[1] = "+" THEN i32_digits(Tail(s), 1, TRUE, 0)
    ELSE i32_digits(s, 1, TRUE, 0)

\* s.parse::<i32>(): empty input and a lone sign are errors
parse_i32(s) ==
    IF s = <<>> THEN [some |-> FALSE]
    ELSE IF s[1] \in {"-", "+"} /\ Len(s) = 1 THEN [some |-> FALSE]
    ELSE IF s[1] = "-" THEN i32_digits(Tail(s), 1, FALSE, 0)
    ELSE IF s[1] = "+" THEN i32_digits(Tail(s), 1, TRUE, 0)
    ELSE i32_digits(s, 1, TRUE, 0)

RECURSIVE StripLeadingZeros(_)
StripLeadingZeros(d) ==
    IF Len(d) > 1 /\ d[1] = "0" THEN StripLeadingZeros(Tail(d)) ELSE d

RECURSIVE StripTrailingZeros(_)
StripTrailingZeros(d) ==
    IF d # <<>> /\ d[Len(d)] = "0"
    THEN StripTrailingZeros(SubSeq(d, 1, Len(d) - 1))
    ELSE d

\* s.parse::<f64>() on what the scanner hands it: an optional '-', digits,
\* one '.', digits.  No digit on either side of the '.' is an error.
parse_f64(s) ==
    LET neg == s # <<>> /\ s[1] = "-"
        body == IF neg THEN Tail(s) ELSE s
        dot == IF \E i \in 1..Len(body) : body[i] = "."
               THEN CHOOSE i \in 1..Len(body) : body[i] = "."
               ELSE Len(body) + 1
        int_digits == SubSeq(body, 1, dot - 1)
        frac_digits == SubSeq(body, dot + 1, Len(body))
    IN  IF \/ int_digits = <<>> /\ frac_digits = <<>>
           \/ \E i \in 1..Len(body) : i # dot /\ ~IsDigit(body[i])
        THEN [some |-> FALSE]
        ELSE [some |-> TRUE,
              v |-> NumberFloat(neg,
                                StripLeadingZeros(IF int_digits = <<>>
                                                  THEN <<"0">> ELSE int_digits),
                                StripTrailingZeros(frac_digits))]

\* A slip: the two branches the wrong way round.
parse_number_swapped(s, is_float, p) ==
    IF ~is_float
    THEN LET f == parse_f64(s) IN
         IF f.some THEN Ok(f.v, p) ELSE Err("Invalid float")
    ELSE LET n == parse_i32(s) IN
         IF n.some THEN Ok(NumberInt(n.v), p) ELSE Err("Invalid integer")

parse_number(s, is_float, p) ==
    IF is_float
    THEN LET f == parse_f64(s) IN
         IF f.some THEN Ok(f.v, p) ELSE Err("Invalid float")
    ELSE LET n == parse_i32(s) IN
         IF n.some THEN Ok(NumberInt(n.v), p) ELSE Err("Invalid integer")

NumberTerminators == {",", NEWLINE, CARRIAGE_RETURN, " ", "}", "]"}

\* A slip: only the second '.' refused, not a '.' before any digit.
dot_refused_second_only(has_dot, has_number) == has_dot

\* if has_dot { return Err } if !has_number { return Err }
dot_refused(has_dot, has_number) == has_dot \/ ~has_number

\* One turn of loop { match chars.peek() { ... } }; the None arm breaks to
\* the code after the loop.
number_turn(s, p, extracted_string, has_dot, has_number) ==
    IF p >= Len(s)
    THEN IF has_number
         THEN Return(parse_number(extracted_string, has_dot, p))
         ELSE Return(Err("Invalid number"))
    ELSE LET c == s[p + 1] IN
         IF IsDigit(c)
         THEN Continue(p + 1, [extracted_string |-> Append(extracted_string, c),
                               has_dot |-> has_dot, has_number |-> TRUE])
         ELSE IF c = "."
         THEN IF dot_refused(has_dot, has_number)
              THEN Return(Err("Invalid number"))
              ELSE Continue(p + 1,
                            [extracted_string |-> Append(extracted_string, c),
                             has_dot |-> TRUE, has_number |-> has_number])
         ELSE IF c \in NumberTerminators
         THEN Return(parse_number(extracted_string, has_dot, p))
         ELSE Return(Err("Invalid number"))

RECURSIVE number_loop(_, _, _, _, _)
number_loop(s, p, extracted_string, has_dot, has_number) ==
    TheOne({IF turn.continue
            THEN number_loop(s, turn.pos, turn.locals.extracted_string,
                             turn.locals.has_dot, turn.locals.has_number)
            ELSE turn.res :
            turn \in {number_turn(s, p, extracted_string, has_dot,
                                  has_number)}})

try_tokenize_number(s, p) ==
    IF p < Len(s) /\ s[p + 1] = "-"
    THEN number_loop(s, p + 1, <<"-">>, FALSE, FALSE)
    ELSE number_loop(s, p, <<>>, FALSE, FALSE)

(***************************************************************************)
(* types.rs: JsonValue and JsonDocument                                    *)
(***************************************************************************)
ValueNull == [type |-> "Null"]
ValueNumber(n) == [type |-> "Number", n |-> n]
ValueString(s) == [type |-> "String", s |-> s]
ValueBoolean(b) == [type |-> "Boolean", b |-> b]
ValueDocument(d) == [type |-> "Document", d |-> d]

DocumentArray(arr) == [type |-> "Array", arr |-> arr]
DocumentObject(object) == [type |-> "Object", object |-> object]

\* HashMap::new() and HashMap::insert: a key already present is overwritten
EmptyMap == [k \in {} |-> ValueNull]

\* A slip: the entry API's or_insert, which keeps the value already there.
insert_or_keep(object, key, value) ==
    [k \in DOMAIN object \cup {key} |->
        IF k \in DOMAIN object THEN object[k] ELSE value]

insert(object, key, value) ==
    [k \in DOMAIN object \cup {key} |-> IF k = key THEN value ELSE object[k]]

\* A slip: insert(0, value), the newest element first.
push_front(arr, value) == <<value>> \o arr

\* Vec::push
push(arr, value) == Append(arr, value)

(***************************************************************************)
(* parser.rs: the recursive descent.  Each operator takes the tokens and   *)
(* the number of them already consumed, and returns Ok(value) with the     *)
(* number consumed at its return, or Err(message).                         *)
(***************************************************************************)
\* token_iter.next() / token_iter.peek() is Some(token of that type)
NextIs(toks, p, type) == p < Len(toks) /\ toks[p + 1].type = type

RECURSIVE parse_value(_, _)

\* One turn of parse_object's loop.
object_turn(toks, p, object) ==
    IF NextIs(toks, p, "RightBrace")
    THEN Return(Ok(DocumentObject(object), p + 1))
    ELSE IF NextIs(toks, p, "String")
    THEN LET key == toks[p + 1].s IN
         IF NextIs(toks, p + 1, "Colon")
         THEN LET value == parse_value(toks, p + 2) IN
              IF ~value.ok THEN Return(value)
              ELSE LET inserted == insert(object, key, value.val) IN
                   IF NextIs(toks, value.pos, "Comma")
                   THEN Continue(value.pos + 1, inserted)
                   ELSE IF NextIs(toks, value.pos, "RightBrace")
                   THEN Return(Ok(DocumentObject(inserted), value.pos + 1))
                   ELSE Return(Err("Unexpected token"))
         ELSE Return(Err("Unexpected token"))
    ELSE Return(Err("Unexpected token"))

\* One turn of parse_array's loop.
array_turn(toks, p, arr) ==
    IF NextIs(toks, p, "RightBracket")
    THEN Return(Ok(DocumentArray(arr), p + 1))
    ELSE IF p < Len(toks)
    THEN LET value == parse_value(toks, p) IN
         IF ~value.ok THEN Return(value)
         ELSE LET pushed == push(arr, value.val) IN
              IF NextIs(toks, value.pos, "Comma")
              THEN Continue(value.pos + 1, pushed)
              ELSE IF NextIs(toks, value.pos, "RightBracket")
              THEN Return(Ok(DocumentArray(pushed), value.pos + 1))
              ELSE Return(Err("Unexpected token"))
    ELSE Return(Err("Unexpected end of array"))

RECURSIVE object_loop(_, _, _)
object_loop(toks, p, object) ==
    TheOne({IF turn.continue THEN object_loop(toks, turn.pos, turn.locals)
            ELSE turn.res :
            turn \in {object_turn(toks, p, object)}})

RECURSIVE array_loop(_, _, _)
array_loop(toks, p, arr) ==
    TheOne({IF turn.continue THEN array_loop(toks, turn.pos, turn.locals)
            ELSE turn.res :
            turn \in {array_turn(toks, p, arr)}})

parse_object(toks, p) == object_loop(toks, p, EmptyMap)

parse_array(toks, p) == array_loop(toks, p, <<>>)

parse_value(toks, p) ==
    IF NextIs(toks, p, "LeftBrace")
    THEN LET obj == parse_object(toks, p + 1) IN
         IF obj.ok THEN Ok(ValueDocument(obj.val), obj.pos) ELSE obj
    ELSE IF NextIs(toks, p, "LeftBracket")
    THEN LET arr == parse_array(toks, p + 1) IN
         IF arr.ok THEN Ok(ValueDocument(arr.val), arr.pos) ELSE arr
    ELSE IF NextIs(toks, p, "Null") THEN Ok(ValueNull, p + 1)
    ELSE IF NextIs(toks, p, "Number") THEN Ok(ValueNumber(toks[p + 1].n), p + 1)
    ELSE IF NextIs(toks, p, "String") THEN Ok(ValueString(toks[p + 1].s), p + 1)
    ELSE IF NextIs(toks, p, "Boolean") THEN Ok(ValueBoolean(toks[p + 1].b), p + 1)
    ELSE Err("Unexpected token")

\* A slip: the root handed to parse_value, which takes scalars too.
parse_tokens_any_value(toks) ==
    LET value == parse_value(toks, 0) IN
    IF ~value.ok THEN Err("Invalid JSON")
    ELSE IF value.val.type = "Document" THEN Ok(value.val.d, value.pos)
    ELSE Ok(DocumentArray(<<value.val>>), value.pos)

parse_tokens(toks) ==
    IF NextIs(toks, 0, "LeftBrace") THEN parse_object(toks, 1)
    ELSE IF NextIs(toks, 0, "LeftBracket") THEN parse_array(toks, 1)
    ELSE Err("Invalid JSON")

(***************************************************************************)
(* Inputs.  The characters come from small alphabets, one family of        *)
(* inputs per scanner, each exhaustive up to its bound.                    *)
(***************************************************************************)
MaxNumLen == 3
MaxStrLen == 4
MaxTail == 2
MaxTokens == 4
MaxEntries == 3
MaxElems == 3
MaxGapLen == 4

SeqsUpTo(S, n) == UNION {[1..k -> S] : k \in 0..n}

\* A numeric literal, or what is nearly one, and the character after it.
NumberAlphabet == {"-", "0", "1", "."}

NumberFollowers ==
    {<<>>, <<",">>, <<" ">>, <<NEWLINE>>, <<CARRIAGE_RETURN>>, <<"}">>,
     <<"]">>, <<TAB>>, <<":">>, <<"x">>, <<"e">>}

NumberInputs ==
    {body \o f : body \in SeqsUpTo(NumberAlphabet, MaxNumLen) \ {<<>>},
                 f \in NumberFollowers}

\* The literals around the ends of the i32 range: 214748364d, with a sign,
\* a leading zero, and a fraction.
I32Stem == <<"2", "1", "4", "7", "4", "8", "3", "6", "4">>

BoundaryInputs ==
    {sign \o zero \o I32Stem \o <<Digits[d]>> \o f :
        sign \in {<<>>, <<"-">>}, zero \in {<<>>, <<"0">>}, d \in 1..10,
        f \in {<<>>, <<",">>, <<"0">>, <<".", "5">>}}

\* A string literal: the opening quote and what follows it.
StringAlphabet == {"a", QUOTE, BACKSLASH, "/", "b", "f", "n", "r", "t", "u"}

StringInputs == {<<QUOTE>> \o body : body \in SeqsUpTo(StringAlphabet, MaxStrLen)}

\* A \u escape in a string literal, with up to four characters after it.
UnicodeAlphabet == {"0", "8", "d", "D", "g"}

UnicodeInputs ==
    {<<QUOTE, BACKSLASH, "u">> \o h \o f :
        h \in SeqsUpTo(UnicodeAlphabet, 4), f \in {<<>>, <<QUOTE>>}}

\* The four hex digits of a letter, a control character, a character
\* beyond ASCII, the two halves of a surrogate pair and the last code point
\* before the surrogates.
Quads ==
    {<<"0", "0", "6", "1">>, <<"0", "0", "0", "8">>, <<"0", "0", "E", "9">>,
     <<"d", "8", "3", "d">>, <<"D", "E", "0", "0">>, <<"d", "7", "f", "f">>}

\* Two \u escapes side by side in a string literal.
AdjacentUnicodeInputs ==
    {<<QUOTE, BACKSLASH, "u">> \o q1 \o <<BACKSLASH, "u">> \o q2 \o <<QUOTE>> :
        q1 \in Quads, q2 \in Quads}

\* A keyword, or the beginning of one, and what follows it.
Words ==
    {<<"n", "u", "l", "l">>, <<"t", "r", "u", "e">>, <<"f", "a", "l", "s", "e">>,
     <<"n", "o", "n", "e">>, <<"t", "u", "r", "t", "l", "e">>}

TailAlphabet == {"e", "l", ",", " ", "n"}

Prefixes(w) == {SubSeq(w, 1, k) : k \in 1..Len(w)}

KeywordInputs ==
    {pre \o f :
        pre \in UNION {Prefixes(w) : w \in Words},
        f \in SeqsUpTo(TailAlphabet, MaxTail)}

\* The documents of the library's own tests.
SampleInputs ==
    {<<"{", QUOTE, "f", "o", "o", QUOTE, ":", " ", QUOTE, "b", "a", "r", QUOTE, "}">>,
     <<"[", "1", ",", " ", "2", ",", " ", "3", "]">>,
     <<"{", QUOTE, "a", QUOTE, ":", "[", "t", "r", "u", "e", ",", "1", "]", "}">>}

\* What stands between tokens and inside strings: whitespace and the tab.
GapAlphabet == {TAB, " ", NEWLINE, CARRIAGE_RETURN, "1", QUOTE, ","}

GapInputs == SeqsUpTo(GapAlphabet, MaxGapLen)

Inputs ==
    NumberInputs \cup BoundaryInputs \cup StringInputs \cup UnicodeInputs
        \cup KeywordInputs \cup SampleInputs \cup GapInputs
        \cup AdjacentUnicodeInputs

(***************************************************************************)
(* lib.rs: parse_json, one step per turn of tokenize_json's loop and one   *)
(* for parse_tokens.                                                       *)
(***************************************************************************)
Pending == [ok |-> FALSE, err |-> "(running)"]

Init ==
    /\ input_string \in Inputs
    /\ chars = 0
    /\ tokens = <<>>
    /\ pc = "tokenize_json"
    /\ result = Pending
    /\ token_iter = 0

\* chars.peek() is Some(c)
Peek(c) == pc = "tokenize_json" /\ chars < Len(input_string) /\ c = input_string[chars + 1]

\* return Err(e) out of tokenize_json, and by the ? out of parse_json: the
\* token list is dropped
TokenizeErr(e) ==
    /\ result' = Err(e)
    /\ tokens' = <<>>
    /\ pc' = "return"
    /\ UNCHANGED <<input_string, chars, token_iter>>

\* tokens.push(token) with the cursor moved to p
Push(token, p) ==
    /\ tokens' = Append(tokens, token)
    /\ chars' = p
    /\ UNCHANGED <<input_string, pc, result, token_iter>>

PunctuationToken(c) ==
    CASE c = "{" -> LeftBrace
      [] c = "}" -> RightBrace
      [] c = "[" -> LeftBracket
      [] c = "]" -> RightBracket
      [] c = ":" -> Colon
      [] c = "," -> Comma

Punctuation ==
    \E c \in {"{", "}", "[", "]", ":", ","} :
        /\ Peek(c)
        /\ Push(PunctuationToken(c), chars + 1)

KeywordNull ==
    /\ Peek("n")
    /\ LET m == try_tokenize_null(input_string, chars) IN
       IF m.matched THEN Push(TokenNull, m.pos) ELSE TokenizeErr("Invalid JSON")

KeywordTrue ==
    /\ Peek("t")
    /\ LET m == try_tokenize_true(input_string, chars) IN
       IF m.matched THEN Push(TokenBoolean(TRUE), m.pos)
       ELSE TokenizeErr("Invalid JSON")

KeywordFalse ==
    /\ Peek("f")
    /\ LET m == try_tokenize_false(input_string, chars) IN
       IF m.matched THEN Push(TokenBoolean(FALSE), m.pos)
       ELSE TokenizeErr("Invalid JSON")

StringToken ==
    /\ Peek(QUOTE)
    /\ \E r \in {try_tokenize_string(input_string, chars)} :
       IF r.ok THEN Push(TokenString(r.val), r.pos) ELSE TokenizeErr(r.err)

NumberToken ==
    /\ \E c \in {"-"} \cup {Digits[i] : i \in 1..10} : Peek(c)
    /\ \E r \in {try_tokenize_number(input_string, chars)} :
       IF r.ok THEN Push(TokenNumber(r.val), r.pos) ELSE TokenizeErr(r.err)

\* A slip: the tab taken for whitespace, as JSON has it.
WhitespaceCharsWithTab == {" ", NEWLINE, CARRIAGE_RETURN, TAB}

\* ' ' | '\n' | '\r'
WhitespaceChars == {" ", NEWLINE, CARRIAGE_RETURN}

\* A slip: the whitespace arm without its chars.next().
WhitespaceWithoutNext ==
    /\ \E c \in WhitespaceChars : Peek(c)
    /\ UNCHANGED vars

Whitespace ==
    /\ \E c \in WhitespaceChars : Peek(c)
    /\ chars' = chars + 1
    /\ UNCHANGED <<input_string, tokens, pc, result, token_iter>>

InvalidCharacter ==
    /\ pc = "tokenize_json"
    /\ chars < Len(input_string)
    /\ LET c == input_string[chars + 1] IN
       /\ c \notin {"{", "}", "[", "]", ":", ",", "n", "t", "f", QUOTE, "-"}
       /\ c \notin WhitespaceChars
       /\ ~IsDigit(c)
    /\ TokenizeErr("Invalid JSON")

\* The loop ends: Ok(tokens), and parse_json builds Parser { tokens }.
TokenizeDone ==
    /\ pc = "tokenize_json"
    /\ chars >= Len(input_string)
    /\ pc' = "parse_tokens"
    /\ UNCHANGED <<input_string, chars, tokens, result, token_iter>>

\* parser.parse_tokens(), whose value parse_json returns
ParseTokens ==
    /\ pc = "parse_tokens"
    /\ \E r \in {parse_tokens(tokens)} :
       /\ result' = IF r.ok THEN [ok |-> TRUE, val |-> r.val] ELSE r
       /\ token_iter' = IF r.ok THEN r.pos ELSE token_iter
    /\ pc' = "return"
    /\ UNCHANGED <<input_string, chars, tokens>>

Next ==
    \/ Punctuation
    \/ KeywordNull
    \/ KeywordTrue
    \/ KeywordFalse
    \/ StringToken
    \/ NumberToken
    \/ Whitespace
    \/ InvalidCharacter
    \/ TokenizeDone
    \/ ParseTokens

Spec == Init /\ [][Next]_vars

(***************************************************************************)
(* The parser alone: Parser { tokens } built from a token sequence.  Every *)
(* token sequence is one the tokenizer can produce (its tokens separated   *)
(* by spaces in the input).                                                *)
(***************************************************************************)
TokenAlphabet ==
    {LeftBrace, RightBrace, LeftBracket, RightBracket, Colon, Comma,
     TokenString(<<"a">>), TokenNumber(NumberInt(1))}

\* The token sequences of a scalar, an empty array, a one-element array and
\* an empty object: what an array element or an object member's value is.
ElementTokens ==
    {<<TokenNumber(NumberInt(1))>>, <<TokenNumber(NumberInt(2))>>,
     <<TokenString(<<"a">>)>>, <<TokenNull>>, <<TokenBoolean(TRUE)>>,
     <<LeftBracket, RightBracket>>,
     <<LeftBracket, TokenNumber(NumberInt(2)), RightBracket>>,
     <<LeftBrace, RightBrace>>}

Keys == {<<"a">>, <<"b">>}

MemberValues == {<<TokenNumber(NumberInt(1))>>, <<TokenNumber(NumberInt(2))>>}

\* key : value
MemberTokens(m) == <<TokenString(m.key), Colon>> \o m.value

Members == [key : Keys, value : MemberValues]

\* The token sequences in xs, in order, with a Comma between neighbours.
RECURSIVE Join(_)
Join(xs) ==
    IF xs = <<>> THEN <<>>
    ELSE IF Len(xs) = 1 THEN xs[1]
    ELSE xs[1] \o <<Comma>> \o Join(Tail(xs))

\* What follows the last element or member.
ArrayClosers ==
    {<<RightBracket>>, <<Comma, RightBracket>>, <<>>, <<Comma>>,
     <<RightBracket, RightBracket>>, <<RightBracket, TokenNumber(NumberInt(2))>>,
     <<RightBrace>>}

ObjectClosers ==
    {<<RightBrace>>, <<Comma, RightBrace>>, <<>>, <<Comma>>,
     <<RightBrace, RightBrace>>, <<RightBrace, LeftBracket, RightBracket>>,
     <<RightBracket>>}

ArrayOf(elems) == <<LeftBracket>> \o Join(elems)

ObjectOf(members) ==
    <<LeftBrace>> \o Join([i \in 1..Len(members) |-> MemberTokens(members[i])])

ArrayInputs ==
    {ArrayOf(elems) \o c : elems \in SeqsUpTo(ElementTokens, MaxElems),
                           c \in ArrayClosers}

ObjectInputs ==
    {ObjectOf(members) \o c : members \in SeqsUpTo(Members, MaxEntries),
                              c \in ObjectClosers}

TokenInputs ==
    SeqsUpTo(TokenAlphabet, MaxTokens) \cup ArrayInputs \cup ObjectInputs

InitParser ==
    /\ input_string = <<>>
    /\ chars = 0
    /\ tokens \in TokenInputs
    /\ pc = "parse_tokens"
    /\ result = Pending
    /\ token_iter = 0

NextParser == ParseTokens

SpecParser == InitParser /\ [][NextParser]_vars

(***************************************************************************)
(* The whole of parse_json, run to its return: the call is synchronous,    *)
(* so a step that can be taken is taken.  The token sequences of the       *)
(* parser's own inputs are run too, as a Parser built from them runs.      *)
(***************************************************************************)
InitRun == Init \/ InitParser

NextRun == Next

SpecRun == InitRun /\ [][NextRun]_vars /\ WF_vars(NextRun)

(***************************************************************************)
(* Properties of the parser (under SpecParser)                             *)
(***************************************************************************)
Returned == pc = "return"

IsCloser(token) == token.type \in {"RightBrace", "RightBracket"}

\* C1: an input with a trailing comma is never parsed successfully: when a
\* Comma inside the parsed document is directly followed by the closing
\* RightBrace or RightBracket, parse_tokens returns an error.
C1_TrailingCommaRejected ==
    (Returned /\ result.ok) =>
        \A i \in 1..(token_iter - 1) :
            ~(tokens[i].type = "Comma" /\ IsCloser(tokens[i + 1]))

\* C2: when parse_tokens returns success the cursor has consumed the whole
\* token sequence: no token remains after the root document's closer.
C2_WholeInputConsumed ==
    (Returned /\ result.ok) => token_iter = Len(tokens)

\* C3: parse_tokens succeeds only if the first token is LeftBrace or
\* LeftBracket; on an empty sequence or any other first token it fails
\* with "Invalid JSON" and builds no value.
C3_RootMustBeContainer ==
    Returned =>
        /\ result.ok => tokens # <<>> /\ tokens[1].type \in {"LeftBrace", "LeftBracket"}
        /\ (tokens = <<>> \/ tokens[1].type \notin {"LeftBrace", "LeftBracket"})
           => (~result.ok /\ result.err = "Invalid JSON" /\ token_iter = 0)

C3_Witness ==
    /\ Returned
    /\ tokens # <<>>
    /\ tokens[1].type = "Number"
    /\ ~result.ok
    /\ result.err = "Invalid JSON"

IsOpener(token) == token.type \in {"LeftBrace", "LeftBracket"}

\* How many containers opened in toks[lo..(i - 1)] are still open at i.
Depth(toks, lo, i) ==
    Cardinality({j \in lo..(i - 1) : IsOpener(toks[j])})
        - Cardinality({j \in lo..(i - 1) : IsCloser(toks[j])})

\* The positions of the Commas of toks[lo..hi] that lie in no nested
\* container, in increasing order.
RECURSIVE Sorted(_)
Sorted(S) ==
    IF S = {} THEN <<>>
    ELSE LET m == CHOOSE x \in S : \A y \in S : x <= y IN
         <<m>> \o Sorted(S \ {m})

TopCommas(toks, lo, hi) ==
    Sorted({i \in lo..hi : toks[i].type = "Comma" /\ Depth(toks, lo, i) = 0})

\* toks[lo..hi] cut at those Commas: the elements of an array, the members
\* of an object, as written in the source.  What follows a trailing Comma
\* is no element.
Segments(toks, lo, hi) ==
    LET cuts == <<lo - 1>> \o TopCommas(toks, lo, hi) \o <<hi + 1>>
        all == [k \in 1..(Len(cuts) - 1) |->
                   SubSeq(toks, cuts[k] + 1, cuts[k + 1] - 1)]
    IN  SelectSeq(all, LAMBDA seg : seg # <<>>)

\* The root document's elements or members: what stands between its
\* opener, the first token, and its closer, the last token consumed.
RootSegments == Segments(tokens, 2, token_iter - 1)

\* LeftBrace, then key : scalar members with a Comma between neighbours,
\* whatever the keys, then RightBrace.
IsFlatObject(toks) ==
    /\ Len(toks) >= 5
    /\ Len(toks) % 4 = 1
    /\ toks[1].type = "LeftBrace"
    /\ toks[Len(toks)].type = "RightBrace"
    /\ \A k \in 1..((Len(toks) - 1) \div 4) :
           /\ toks[4 * k - 2].type = "String"
           /\ toks[4 * k - 1].type = "Colon"
           /\ toks[4 * k].type \in {"String", "Number", "Boolean", "Null"}
           /\ 4 * k + 1 < Len(toks) => toks[4 * k + 1].type = "Comma"

\* C4: in a successfully parsed object each key appears once, mapped to the
\* value of its last occurrence in the token sequence; a repeated key is no
\* error.
C4_LastKeyWins ==
    /\ (Returned /\ IsFlatObject(tokens)) => result.ok
    /\ (Returned /\ result.ok /\ tokens[1].type = "LeftBrace") =>
        LET members == RootSegments
            object == result.val.object
        IN  /\ result.val.type = "Object"
            /\ DOMAIN object = {members[i][1].s : i \in 1..Len(members)}
            /\ \A i \in 1..Len(members) :
                   (\A j \in (i + 1)..Len(members) : members[j][1].s # members[i][1].s)
                   => object[members[i][1].s] =
                          parse_value(SubSeq(members[i], 3, Len(members[i])), 0).val

C4_Witness ==
    /\ Returned
    /\ result.ok
    /\ tokens = <<LeftBrace, TokenString(<<"a">>), Colon, TokenNumber(NumberInt(1)),
                  Comma, TokenString(<<"a">>), Colon, TokenNumber(NumberInt(2)),
                  RightBrace>>
    /\ DOMAIN result.val.object = {<<"a">>}
    /\ result.val.object[<<"a">>] = ValueNumber(NumberInt(2))

\* C5: a successfully parsed array holds one value per element of the
\* source, in source order, the i-th value being the parse of the i-th
\* element; LeftBracket directly followed by RightBracket is the empty array.
C5_ArrayInSourceOrder ==
    (Returned /\ tokens # <<>> /\ tokens[1].type = "LeftBracket") =>
        /\ (Len(tokens) >= 2 /\ tokens[2].type = "RightBracket")
           => result.ok /\ result.val = DocumentArray(<<>>)
        /\ result.ok
           => LET elems == RootSegments IN
              /\ result.val.type = "Array"
              /\ Len(result.val.arr) = Len(elems)
              /\ \A i \in 1..Len(elems) :
                     result.val.arr[i] = parse_value(elems[i], 0).val

C5_Witness ==
    /\ Returned
    /\ result.ok
    /\ tokens = <<LeftBracket, TokenNumber(NumberInt(1)), Comma,
                  TokenNumber(NumberInt(2)), Comma, TokenString(<<"a">>),
                  RightBracket>>
    /\ result.val.arr = <<ValueNumber(NumberInt(1)), ValueNumber(NumberInt(2)),
                          ValueString(<<"a">>)>>

(***************************************************************************)
(* Properties of the tokenizer (under Spec), each about one turn of        *)
(* tokenize_json's loop: the state before it and the state after it.       *)
(***************************************************************************)
\* The turn pushed one token of this type.
Pushed(type) ==
    /\ Len(tokens') = Len(tokens) + 1
    /\ tokens'[Len(tokens')].type = type
    /\ pc' = "tokenize_json"

\* The turn ended the whole tokenization with this error and no token list.
Failed(e) ==
    /\ pc' = "return"
    /\ ~result'.ok
    /\ result'.err = e
    /\ tokens' = <<>>

LastToken == tokens[Len(tokens)]

\* The scanner is about to read a number.
AtNumber ==
    /\ pc = "tokenize_json"
    /\ chars < Len(input_string)
    /\ (input_string[chars + 1] = "-" \/ IsDigit(input_string[chars + 1]))

\* The first position at or after p that holds a terminator, or the
\* position after the end of the input.
RunEnd(s, p) ==
    CHOOSE q \in p..(Len(s) + 1) :
        /\ q = Len(s) + 1 \/ s[q] \in NumberTerminators
        /\ \A r \in p..(q - 1) : s[r] \notin NumberTerminators

\* The characters from the cursor up to the terminator or the end of input.
Run == SubSeq(input_string, chars + 1, RunEnd(input_string, chars + 1) - 1)

Contains(s, c) == \E i \in 1..Len(s) : s[i] = c

\* C6: an accepted numeric literal yields the Float variant if and only if
\* it contains a '.', and the Int variant if and only if it contains none.
C6_FloatIffDot ==
    [][(AtNumber /\ Pushed("Number")) =>
          LET literal == SubSeq(input_string, chars + 1, chars')
              number == tokens'[Len(tokens')].n
          IN  /\ number.kind \in {"Int", "Float"}
              /\ number.kind = "Float" <=> Contains(literal, ".")
              /\ number.kind = "Int" <=> ~Contains(literal, ".")]_vars

C6_Witness ==
    /\ pc = "tokenize_json"
    /\ tokens # <<>>
    /\ LastToken.type = "Number"
    /\ LastToken.n.kind = "Float"
    /\ Contains(SubSeq(input_string, 1, chars), ".")

\* An optional '-' and then one digit or more.
IsIntLiteral(s) ==
    LET d == IF s # <<>> /\ s[1] = "-" THEN Tail(s) ELSE s IN
    d # <<>> /\ \A i \in 1..Len(d) : IsDigit(d[i])

I32MaxDigits == <<"2", "1", "4", "7", "4", "8", "3", "6", "4", "7">>

I32MinDigits == <<"2", "1", "4", "7", "4", "8", "3", "6", "4", "8">>

\* d <= limit, for two digit strings of the same length
DigitsLeq(d, limit) ==
    \A i \in 1..Len(d) :
        (\A j \in 1..(i - 1) : d[j] = limit[j])
        => DigitValue(d[i]) <= DigitValue(limit[i])

\* The value of the literal lies in [-2147483648, 2147483647], decided on
\* its digits.
InI32Range(s) ==
    LET neg == s[1] = "-"
        d == StripLeadingZeros(IF neg THEN Tail(s) ELSE s)
        limit == IF neg THEN I32MinDigits ELSE I32MaxDigits
    IN  \/ Len(d) < Len(limit)
        \/ Len(d) = Len(limit) /\ DigitsLeq(d, limit)

\* The value of the digits d, negated when neg.
RECURSIVE DecimalValue(_, _, _)
DecimalValue(d, neg, acc) ==
    IF d = <<>> THEN acc
    ELSE DecimalValue(Tail(d), neg,
                      IF neg THEN acc * 10 - DigitValue(d[1])
                             ELSE acc * 10 + DigitValue(d[1]))

IntLiteralValue(s) ==
    IF s[1] = "-" THEN DecimalValue(Tail(s), TRUE, 0) ELSE DecimalValue(s, FALSE, 0)

\* C7: a numeric literal without a '.' yields Int(v) exactly when its value
\* v is in the signed 32-bit range, and v is that value; outside the range
\* tokenization fails with "Invalid integer".
C7_IntRange ==
    [][(AtNumber /\ IsIntLiteral(Run)) =>
          IF InI32Range(Run)
          THEN /\ Pushed("Number")
               /\ tokens'[Len(tokens')].n = NumberInt(IntLiteralValue(Run))
               /\ chars' = chars + Len(Run)
          ELSE Failed("Invalid integer")]_vars

C7_Witness ==
    /\ pc = "tokenize_json"
    /\ tokens # <<>>
    /\ LastToken.type = "Number"
    /\ LastToken.n.kind = "Int"
    /\ LastToken.n.v = I32_MIN

\* Scanning s from the left, a character that is no part of a number: a
\* second '.', a '.' with no digit before it, a '-' after the first
\* character, or anything else that is not a digit.
Malformed(s) ==
    \E i \in 1..Len(s) :
        \/ s[i] = "." /\ \E j \in 1..(i - 1) : s[j] = "."
        \/ s[i] = "." /\ ~\E j \in 1..(i - 1) : IsDigit(s[j])
        \/ s[i] = "-" /\ i > 1
        \/ ~IsDigit(s[i]) /\ s[i] \notin {".", "-"}

\* C8: try_tokenize_number fails with "Invalid number" and yields no token
\* when, before a terminator or the end of input, it meets a second '.', a
\* '.' not preceded by a digit, a '-' after the first character, or another
\* character that is neither a digit nor a terminator.
C8_InvalidNumber ==
    [][(AtNumber /\ Malformed(Run)) => Failed("Invalid number")]_vars

C8_Witness ==
    /\ pc = "return"
    /\ ~result.ok
    /\ result.err = "Invalid number"
    /\ Cardinality({i \in 1..Len(input_string) : input_string[i] = "."}) = 2
    /\ IsDigit(input_string[1])

\* The next Len(word) characters at the cursor are exactly the word.
WordAhead(word) ==
    /\ chars + Len(word) <= Len(input_string)
    /\ SubSeq(input_string, chars + 1, chars + Len(word)) = word

\* A turn that starts at the first letter of a keyword pushes the token and
\* consumes the word when the word is ahead, and fails otherwise.
KeywordTurn(c, word, token) ==
    Peek(c) =>
        IF WordAhead(word)
        THEN /\ tokens' = Append(tokens, token)
             /\ chars' = chars + Len(word)
             /\ pc' = "tokenize_json"
        ELSE /\ pc' = "return"
             /\ ~result'.ok
             /\ tokens' = <<>>

\* C9: at n, t or f outside a string the tokenizer emits Null, Boolean(true)
\* or Boolean(false) if and only if the next 4, 4 or 5 characters are
\* exactly null, true or false; it then consumes exactly those characters;
\* on any mismatch the whole tokenization fails with no token list.
C9_ExactKeyword ==
    [][/\ KeywordTurn("n", <<"n", "u", "l", "l">>, TokenNull)
       /\ KeywordTurn("t", <<"t", "r", "u", "e">>, TokenBoolean(TRUE))
       /\ KeywordTurn("f", <<"f", "a", "l", "s", "e">>, TokenBoolean(FALSE))]_vars

C9_Witness ==
    /\ pc = "tokenize_json"
    /\ tokens = <<TokenBoolean(FALSE)>>
    /\ chars = 5
    /\ Len(input_string) = 7
    /\ input_string[6] = ","
    /\ input_string[7] = " "

\* The scanner is about to read a string: the opening quote is at
\* chars + 1 and the body starts at chars + 2.
AtString == Peek(QUOTE)

\* The backslashes directly before position i of the body that starts at b.
BackslashesBefore(s, b, i) ==
    CHOOSE k \in 0..(i - b) :
        /\ \A j \in (i - k)..(i - 1) : s[j] = BACKSLASH
        /\ i - k = b \/ s[i - k - 1] # BACKSLASH

\* Position i follows an escaping backslash: an odd number of backslashes
\* stands directly before it.
Escaped(s, b, i) == BackslashesBefore(s, b, i) % 2 = 1

\* What each one-character escape stands for.
Decoded(c) ==
    CASE c = QUOTE -> QUOTE
      [] c = BACKSLASH -> BACKSLASH
      [] c = "/" -> "/"
      [] c = "b" -> BACKSPACE
      [] c = "f" -> FORM_FEED
      [] c = "n" -> NEWLINE
      [] c = "r" -> CARRIAGE_RETURN
      [] c = "t" -> TAB

HasDecoded(c) == c \in {QUOTE, BACKSLASH, "/", "b", "f", "n", "r", "t"}

\* An escaped u at position i without four hex digits after it, or with
\* four that name no character.
BadUnicode(s, i) ==
    \/ \E k \in 1..4 : i + k > Len(s) \/ ~is_ascii_hexdigit(s[i + k])
    \/ ~char_from_u32(from_str_radix(SubSeq(s, i + 1, i + 4))).some

\* The positions of the body where the scan ends: an unescaped quote, an
\* escaped character that is no escape, a \u that cannot be decoded.
StringEvents(s, b) ==
    {i \in b..Len(s) :
        \/ s[i] = QUOTE /\ ~Escaped(s, b, i)
        \/ Escaped(s, b, i) /\ ~HasDecoded(s[i]) /\ s[i] # "u"
        \/ Escaped(s, b, i) /\ s[i] = "u" /\ BadUnicode(s, i)}

Min(S) == CHOOSE x \in S : \A y \in S : x <= y

\* Position i is one of the four hex digits of a \u escape.
InUnicodeEscape(s, b, i) ==
    \E j \in b..(i - 1) : i - j <= 4 /\ Escaped(s, b, j) /\ s[j] = "u"

\* What position i of the body adds to the text.
Contribution(s, b, i) ==
    IF InUnicodeEscape(s, b, i) THEN <<>>
    ELSE IF Escaped(s, b, i)
    THEN IF s[i] = "u"
         THEN <<char_from_u32(from_str_radix(SubSeq(s, i + 1, i + 4))).char>>
         ELSE <<Decoded(s[i])>>
    ELSE IF s[i] = BACKSLASH THEN <<>>
    ELSE <<s[i]>>

\* The text of the body positions i..(e - 1), in source order.
RECURSIVE DecodedText(_, _, _, _)
DecodedText(s, b, i, e) ==
    IF i >= e THEN <<>>
    ELSE Contribution(s, b, i) \o DecodedText(s, b, i + 1, e)

\* C10: try_tokenize_string returns the decoded text only when it reaches
\* an unescaped closing quote; each one-character escape adds its decoded
\* character and each unescaped character itself, in source order; a
\* backslash before any other character than u fails with "Invalid escape
\* sequence", a backslash before the end of input with "EOF reached when
\* parsing escape sequence", an input that ends before the closing quote
\* with "EOF reached when parsing string"; no failing case yields a token.
C10_StringDecoding ==
    [][AtString =>
          LET s == input_string
              b == chars + 2
              events == StringEvents(s, b)
          IN  /\ Pushed("String")
                 => s[chars'] = QUOTE /\ chars' >= b /\ ~Escaped(s, b, chars')
              /\ IF events = {}
                 THEN IF Len(s) >= b /\ Escaped(s, b, Len(s) + 1)
                      THEN Failed("EOF reached when parsing escape sequence")
                      ELSE Failed("EOF reached when parsing string")
                 ELSE LET first == Min(events) IN
                      IF s[first] = QUOTE /\ ~Escaped(s, b, first)
                      THEN /\ Pushed("String")
                           /\ tokens'[Len(tokens')].s = DecodedText(s, b, b, first)
                           /\ chars' = first
                      ELSE IF s[first] = "u"
                      THEN pc' = "return" /\ ~result'.ok /\ tokens' = <<>>
                      ELSE Failed("Invalid escape sequence")]_vars

C10_Witness ==
    /\ pc = "tokenize_json"
    /\ input_string = <<QUOTE, "a", BACKSLASH, "n", QUOTE>>
    /\ tokens = <<TokenString(<<"a", NEWLINE>>)>>
    /\ chars = 5

\* Some tab at or after position i of s stands outside every string
\* literal; in_string says whether position i is inside one.
RECURSIVE TabOutsideString(_, _, _)
TabOutsideString(s, i, in_string) ==
    IF i > Len(s) THEN FALSE
    ELSE IF in_string
    THEN IF s[i] = BACKSLASH THEN TabOutsideString(s, i + 2, TRUE)
         ELSE TabOutsideString(s, i + 1, s[i] # QUOTE)
    ELSE \/ s[i] = TAB
         \/ TabOutsideString(s, i + 1, s[i] = QUOTE)

Count(s, c) == Cardinality({i \in 1..Len(s) : s[i] = c})

\* C11: outside a string the tokenizer skips space, newline and carriage
\* return without emitting a token; a tab is no whitespace: an input with a
\* tab outside a string literal fails tokenization (between tokens as an
\* invalid character, directly after a number as an invalid number), and a
\* tab inside a string literal is kept as part of the string.
C11_TabIsNoWhitespace ==
    [][/\ (\E c \in {" ", NEWLINE, CARRIAGE_RETURN} : Peek(c))
          => chars' = chars + 1 /\ tokens' = tokens /\ pc' = "tokenize_json"
       /\ Peek(TAB) => Failed("Invalid JSON")
       /\ (AtNumber /\ Contains(Run, TAB)) => Failed("Invalid number")
       /\ (AtString /\ Pushed("String"))
          => Count(tokens'[Len(tokens')].s, TAB)
                 >= Count(SubSeq(input_string, chars + 2, chars' - 1), TAB)
       /\ (pc = "tokenize_json" /\ pc' = "parse_tokens")
          => ~TabOutsideString(input_string, 1, FALSE)]_vars

C11_Witness ==
    /\ pc = "return"
    /\ ~result.ok
    /\ result.err = "Invalid JSON"
    /\ input_string = <<QUOTE, TAB, QUOTE, TAB>>
    /\ tokens = <<>>
    /\ chars = 3

IsScalar(token) == token.type \in {"String", "Number", "Boolean", "Null"}

\* toks is [ followed by scalars with a Comma between neighbours, and
\* nothing else: an array of scalars that is never closed, ending after
\* the [, after a Comma or directly after an element.
IsOpenFlatArray(toks) ==
    /\ Len(toks) >= 1
    /\ toks[1].type = "LeftBracket"
    /\ \A i \in 2..Len(toks) :
          IF i % 2 = 0 THEN IsScalar(toks[i]) ELSE toks[i].type = "Comma"

\* C12: when the token sequence ends while the innermost open container is
\* an unclosed array, whether the end comes where an element is expected
\* (after [ or after a Comma) or directly after an element, parse_tokens
\* fails with "Unexpected end of array".
C12_UnclosedArray ==
    (Returned /\ IsOpenFlatArray(tokens))
        => ~result.ok /\ result.err = "Unexpected end of array"

\* The value of each hex digit.
HexDigitValue ==
    [c \in {"0", "1", "2", "3", "4", "5", "6", "7", "8", "9",
            "a", "b", "c", "d", "e", "f", "A", "B", "C", "D", "E", "F"} |->
        CASE c = "0" -> 0 [] c = "1" -> 1 [] c = "2" -> 2 [] c = "3" -> 3
          [] c = "4" -> 4 [] c = "5" -> 5 [] c = "6" -> 6 [] c = "7" -> 7
          [] c = "8" -> 8 [] c = "9" -> 9
          [] c \in {"a", "A"} -> 10 [] c \in {"b", "B"} -> 11
          [] c \in {"c", "C"} -> 12 [] c \in {"d", "D"} -> 13
          [] c \in {"e", "E"} -> 14 [] c \in {"f", "F"} -> 15]

\* One of the four characters after the u at position i is missing or is
\* no hex digit.
MalformedUnicode(s, i) ==
    \E k \in 1..4 : i + k > Len(s) \/ s[i + k] \notin DOMAIN HexDigitValue

\* The code point written by the four hex digits after the u at position i.
CodePointAt(s, i) ==
    HexDigitValue[s[i + 1]] * 4096 + HexDigitValue[s[i + 2]] * 256
        + HexDigitValue[s[i + 3]] * 16 + HexDigitValue[s[i + 4]]

\* D800..DFFF: the code points whose top five bits are 11011.
IsSurrogate(n) == n \div 2048 = 27

\* The name the model gives to the character of code point n.
CharOf(n) ==
    IF n \in DOMAIN AsciiTable THEN AsciiTable[n]
    ELSE "\\u{" \o ToString(n) \o "}"

\* Position i of the body that starts at b is the u of a \u escape.
IsUnicodeEscape(s, b, i) == s[i] = "u" /\ Escaped(s, b, i)

\* The positions of the body where the scan ends, the \u escapes judged by
\* their own four characters alone.
UnicodeEvents(s, b) ==
    {i \in b..Len(s) :
        \/ s[i] = QUOTE /\ ~Escaped(s, b, i)
        \/ Escaped(s, b, i) /\ ~HasDecoded(s[i]) /\ s[i] # "u"
        \/ /\ IsUnicodeEscape(s, b, i)
           /\ MalformedUnicode(s, i) \/ IsSurrogate(CodePointAt(s, i))}

\* How many characters the body positions b..i have added to the text:
\* every position counts but an escaping backslash and the four hex digits
\* of a \u escape.
TextLen(s, b, i) ==
    Cardinality({j \in b..i :
                    /\ ~(s[j] = BACKSLASH /\ ~Escaped(s, b, j))
                    /\ ~InUnicodeEscape(s, b, j)})

\* C13: inside a string every \u escape is decoded on its own from exactly
\* the four characters after it, never combined with an adjacent escape:
\* four hex digits of a valid code point add exactly that one character; a
\* code point in the surrogate range D800..DFFF fails with "Invalid unicode
\* code point"; a missing or non-hex character among the four fails with
\* "Invalid unicode escape sequence".
C13_UnicodeEscapeAlone ==
    [][AtString =>
          LET s == input_string
              b == chars + 2
              events == UnicodeEvents(s, b)
          IN  /\ (events # {} /\ IsUnicodeEscape(s, b, Min(events)))
                 => IF MalformedUnicode(s, Min(events))
                    THEN Failed("Invalid unicode escape sequence")
                    ELSE Failed("Invalid unicode code point")
              /\ Pushed("String")
                 => LET text == tokens'[Len(tokens')].s IN
                    /\ Len(text) = TextLen(s, b, chars' - 1)
                    /\ \A i \in b..(chars' - 1) :
                          IsUnicodeEscape(s, b, i)
                              => /\ ~MalformedUnicode(s, i)
                                 /\ ~IsSurrogate(CodePointAt(s, i))
                                 /\ text[TextLen(s, b, i)]
                                        = CharOf(CodePointAt(s, i))]_vars

C13_Witness ==
    /\ pc = "tokenize_json"
    /\ input_string = <<QUOTE, BACKSLASH, "u", "0", "0", "6", "1",
                        BACKSLASH, "u", "0", "0", "0", "8", QUOTE>>
    /\ tokens = <<TokenString(<<"a", BACKSPACE>>)>>
    /\ chars = 14

\* A turn that goes on to the next one has moved the cursor forward, and
\* not beyond the end n.
Advances(turn, p, n) == turn.continue => turn.pos > p /\ turn.pos <= n

\* Every turn of the number scanner's loop moves the cursor, from the
\* call's first turn to its return.
RECURSIVE number_advances(_, _, _, _, _)
number_advances(s, p, extracted_string, has_dot, has_number) ==
    LET turn == number_turn(s, p, extracted_string, has_dot, has_number) IN
    /\ Advances(turn, p, Len(s))
    /\ turn.continue
       => number_advances(s, turn.pos, turn.locals.extracted_string,
                          turn.locals.has_dot, turn.locals.has_number)

\* One turn of the tokenizer's main loop.
MainLoopAdvances ==
    /\ pc = "tokenize_json"
       => \/ chars' > chars /\ chars' <= Len(input_string)
          \/ pc' \in {"parse_tokens", "return"}
    /\ pc = "parse_tokens" => pc' = "return"

\* The turns of the sub-scanners' loops when tokenize_json is called, and
\* of the parser's loops when parse_tokens is, from every place of the
\* input where one can start.
LoopsAdvance ==
    /\ (pc = "tokenize_json" /\ chars = 0) =>
       \A p \in 0..Len(input_string) :
          LET s == input_string IN
          /\ Advances(string_turn(s, p, <<>>), p, Len(s))
          /\ number_advances(s, p, <<>>, FALSE, FALSE)
          /\ \A word \in {<<"n", "u", "l", "l">>, <<"t", "r", "u", "e">>,
                          <<"f", "a", "l", "s", "e">>} :
                \A i \in 0..Len(word) :
                   Advances(take_eq_turn(s, p, word, i), p, Len(s))
    /\ pc = "parse_tokens" =>
       \A p \in 0..Len(tokens) :
          /\ Advances(object_turn(tokens, p, EmptyMap), p, Len(tokens))
          /\ Advances(array_turn(tokens, p, <<>>), p, Len(tokens))

====
